---- MODULE Spec2Model ----
(***************************************************************************)
(* State machine of server/on-demand-entry-handler.js: the entry registry  *)
(* (entries), the completion emitter (doneCallbacks), the one-element      *)
(* recency list (lastAccessPages), the ensurePage promises, the webpack    *)
(* 'make' and 'done' hooks, the ping handler of the websocket server and   *)
(* the periodic disposeInactiveEntries sweep.                              *)
(*                                                                         *)
(* A page identifier is the sequence of its path tokens, separators kept:  *)
(* "/a/index" is <<"/", "a", "/", "index">> and "" is << >>.               *)
(*                                                                         *)
(* The handlers run to completion on one event loop, so each is one        *)
(* action.  ensurePage is two: the call up to `await resolvePath`, and the *)
(* rest once the resolver has answered.  The processCallback closures are  *)
(* anonymous: a listener is known by the state of the promise it settles.  *)
(***************************************************************************)
EXTENDS Integers, Sequences, FiniteSets, TLC

\* ---------------------------------------------------------------- bounds

\* Number of ensurePage invocations a behaviour makes.
MaxCalls == 3

\* The values Date.now() takes (milliseconds), in increasing order of time.
Instants == { 0, 20000, 25000, 26000 }

\* Page identifiers handed to ensurePage and carried by pings.
RawPages ==
    { <<"/", "index">>, <<"/">>, <<"/", "a">>, <<"/", "b">> }

\* ------------------------------------------------------------- constants

ADDED == "ADDED"
BUILDING == "BUILDING"
BUILT == "BUILT"

maxInactiveAge == 1000 * 25

\* ----------------------------------------------------------------- state

VARIABLES
    entries,          \* registry: normalized page -> entry record
    lastAccessPages,  \* one-element list, the most recently pinged page
    doneCallbacks,    \* page -> listener list; a listener is the state of
                      \* the promise its processCallback settles
    touchedAPage,     \* the one-time touch has been scheduled
    resolving,        \* page -> number of calls awaiting resolvePath
    ncalls,           \* number of ensurePage invocations so far
    now,              \* Date.now()
    compiling,        \* a compilation pass is between 'make' and its end
    invalidated,      \* devMiddleware.invalidate() has asked for a pass
    uncaught,         \* the exception that escaped a handler, or "none"
    last              \* the handler that ran last: its input and its calls
                      \* on its collaborators

vars == << entries, lastAccessPages, doneCallbacks, touchedAPage, resolving,
           ncalls, now, compiling, invalidated, uncaught, last >>

\* ------------------------------------------------------------ pure parts

\* page.replace(/\/index$/, ''): the trailing /index removed, slash included.
normalizePageStripsIndex(page) ==
    IF /\ Len(page) >= 2
       /\ page[Len(page)] = "index"
       /\ page[Len(page) - 1] = "/"
    THEN SubSeq(page, 1, Len(page) - 2)
    ELSE page

\* page.replace(/\/index$/, '/')
normalizePage(page) ==
    IF /\ Len(page) >= 2
       /\ page[Len(page)] = "index"
       /\ page[Len(page) - 1] = "/"
    THEN SubSeq(page, 1, Len(page) - 1)
    ELSE page

\* The keys the registry can hold.
Pages == { normalizePage(raw) : raw \in RawPages }

\* A handler that called none of its collaborators.
\*   op          the handler
\*   raw         the page identifier as an ensurePage call or a ping gave it
\*   page        the normalized page of an ensurePage or of a ping
\*   ok          resolvePath found the page / the pass had no errors
\*   invalidates number of devMiddleware.invalidate() calls
\*   sent        messages passed to conn.send
\*   added       page -> number of addEntry calls
\*   emitted     pages passed to doneCallbacks.emit
\*   settled     promises settled, each with its outcome
\*   disposed    pages deleted from the registry
Quiet(op, page) ==
    [ op |-> op, raw |-> << >>, page |-> page, ok |-> TRUE, invalidates |-> 0,
      sent |-> << >>, added |-> << >>, emitted |-> {}, settled |-> << >>,
      disposed |-> {} ]

\* The entry object literal with a lastActiveTime from its creation.
NewEntryStamped(page) ==
    [ name |-> page, pathname |-> page, status |-> ADDED,
      lastActiveTime |-> now ]

\* The entry object literal of ensurePage; name, entry and pathname are
\* functions of the page alone and are carried as the page itself.
NewEntry(page) ==
    [ name |-> page, pathname |-> page, status |-> ADDED ]

\* ---------------------------------------------------------------- Init

Init ==
    /\ entries = << >>
    /\ lastAccessPages = << << >> >>
    /\ doneCallbacks = [ p \in Pages |-> << >> ]
    /\ touchedAPage = FALSE
    /\ resolving = [ p \in Pages |-> 0 ]
    /\ ncalls = 0
    /\ now = 0
    /\ compiling = FALSE
    /\ invalidated = FALSE
    /\ uncaught = "none"
    /\ last = Quiet("init", << >>)

\* --------------------------------------------------------- ensurePage

\* async ensurePage(page): normalizePage, then `await resolvePath(pagePath)`
\* suspends the call until the resolver answers.
EnsurePageCall(raw) ==
    /\ uncaught = "none"
    /\ ncalls < MaxCalls
    /\ ncalls' = ncalls + 1
    /\ resolving' = [ resolving EXCEPT ![normalizePage(raw)] = @ + 1 ]
    /\ last' = [ Quiet("ensurePageCall", normalizePage(raw)) EXCEPT
                    !.raw = raw ]
    /\ UNCHANGED << entries, lastAccessPages, doneCallbacks, touchedAPage, now,
                    compiling, invalidated, uncaught >>

\* function processCallback (err): settles the promise of its call; settling
\* a promise that is no longer pending changes nothing.
processCallback(promise, err) ==
    IF promise # "pending" THEN promise
    ELSE IF err THEN "rejected" ELSE "resolved"

\* ensurePage without the shortcut for a BUILT entry: it adds the page again.
EnsurePageAlwaysAdds(page, found) ==
    /\ uncaught = "none"
    /\ resolving[page] > 0
    /\ resolving' = [ resolving EXCEPT ![page] = @ - 1 ]
    /\ LET entryInfo == page \in DOMAIN entries
           did == [ Quiet("ensurePage", page) EXCEPT !.ok = found ]
       IN  IF ~found
           THEN /\ last' = [ did EXCEPT !.settled = << "rejected" >> ]
                /\ UNCHANGED << entries, doneCallbacks, invalidated >>
           ELSE IF entryInfo /\ entries[page].status = BUILDING
           THEN /\ doneCallbacks' =
                      [ doneCallbacks EXCEPT ![page] = Append(@, "pending") ]
                /\ last' = did
                /\ UNCHANGED << entries, invalidated >>
           ELSE /\ entries' = (page :> NewEntry(page)) @@ entries
                /\ doneCallbacks' =
                      [ doneCallbacks EXCEPT ![page] = Append(@, "pending") ]
                /\ invalidated' = TRUE
                /\ last' = [ did EXCEPT !.invalidates = 1 ]
    /\ UNCHANGED << lastAccessPages, touchedAPage, ncalls, now, compiling,
                    uncaught >>

\* ensurePage that puts the entry in the registry and invalidates before it
\* looks at the answer of the resolver.
EnsurePageAddsBeforeResolving(page, found) ==
    /\ uncaught = "none"
    /\ resolving[page] > 0
    /\ resolving' = [ resolving EXCEPT ![page] = @ - 1 ]
    /\ LET entryInfo == page \in DOMAIN entries
           did == [ Quiet("ensurePage", page) EXCEPT !.ok = found ]
       IN  IF entryInfo /\ entries[page].status = BUILT
           THEN /\ last' = [ did EXCEPT
                               !.settled = IF found THEN << "resolved" >>
                                           ELSE << "rejected" >> ]
                /\ UNCHANGED << entries, doneCallbacks, invalidated >>
           ELSE IF entryInfo /\ entries[page].status = BUILDING
           THEN /\ doneCallbacks' =
                      [ doneCallbacks EXCEPT ![page] =
                            IF found THEN Append(@, "pending") ELSE @ ]
                /\ last' = [ did EXCEPT
                               !.settled = IF found THEN << >>
                                           ELSE << "rejected" >> ]
                /\ UNCHANGED << entries, invalidated >>
           ELSE /\ entries' = (page :> NewEntry(page)) @@ entries
                /\ doneCallbacks' =
                      [ doneCallbacks EXCEPT ![page] =
                            IF found THEN Append(@, "pending") ELSE @ ]
                /\ invalidated' = TRUE
                /\ last' = [ did EXCEPT
                               !.invalidates = 1,
                               !.settled = IF found THEN << >>
                                           ELSE << "rejected" >> ]
    /\ UNCHANGED << lastAccessPages, touchedAPage, ncalls, now, compiling,
                    uncaught >>

\* ensurePage without the case of a BUILDING entry: it writes the entry
\* again, as for a page it does not know.
EnsurePageReAddsBuilding(page, found) ==
    /\ uncaught = "none"
    /\ resolving[page] > 0
    /\ resolving' = [ resolving EXCEPT ![page] = @ - 1 ]
    /\ LET entryInfo == page \in DOMAIN entries
           did == [ Quiet("ensurePage", page) EXCEPT !.ok = found ]
       IN  IF ~found
           THEN /\ last' = [ did EXCEPT !.settled = << "rejected" >> ]
                /\ UNCHANGED << entries, doneCallbacks, invalidated >>
           ELSE IF entryInfo /\ entries[page].status = BUILT
           THEN /\ last' = [ did EXCEPT !.settled = << "resolved" >> ]
                /\ UNCHANGED << entries, doneCallbacks, invalidated >>
           ELSE /\ entries' = (page :> NewEntry(page)) @@ entries
                /\ doneCallbacks' =
                      [ doneCallbacks EXCEPT ![page] = Append(@, "pending") ]
                /\ invalidated' = TRUE
                /\ last' = [ did EXCEPT !.invalidates = 1 ]
    /\ UNCHANGED << lastAccessPages, touchedAPage, ncalls, now, compiling,
                    uncaught >>

\* ensurePage treating an ADDED entry as it treats a BUILDING one: it only
\* registers the listener.
EnsurePageSubscribesOnAdded(page, found) ==
    /\ uncaught = "none"
    /\ resolving[page] > 0
    /\ resolving' = [ resolving EXCEPT ![page] = @ - 1 ]
    /\ LET entryInfo == page \in DOMAIN entries
           did == [ Quiet("ensurePage", page) EXCEPT !.ok = found ]
       IN  IF ~found
           THEN /\ last' = [ did EXCEPT !.settled = << "rejected" >> ]
                /\ UNCHANGED << entries, doneCallbacks, invalidated >>
           ELSE IF entryInfo /\ entries[page].status = BUILT
           THEN /\ last' = [ did EXCEPT !.settled = << "resolved" >> ]
                /\ UNCHANGED << entries, doneCallbacks, invalidated >>
           ELSE IF entryInfo /\ entries[page].status \in { BUILDING, ADDED }
           THEN /\ doneCallbacks' =
                      [ doneCallbacks EXCEPT ![page] = Append(@, "pending") ]
                /\ last' = did
                /\ UNCHANGED << entries, invalidated >>
           ELSE /\ entries' = (page :> NewEntry(page)) @@ entries
                /\ doneCallbacks' =
                      [ doneCallbacks EXCEPT ![page] = Append(@, "pending") ]
                /\ invalidated' = TRUE
                /\ last' = [ did EXCEPT !.invalidates = 1 ]
    /\ UNCHANGED << lastAccessPages, touchedAPage, ncalls, now, compiling,
                    uncaught >>

\* ensurePage adding the entry and the listener without asking the build
\* system for a pass.
EnsurePageForgetsInvalidate(page, found) ==
    /\ uncaught = "none"
    /\ resolving[page] > 0
    /\ resolving' = [ resolving EXCEPT ![page] = @ - 1 ]
    /\ LET entryInfo == page \in DOMAIN entries
           did == [ Quiet("ensurePage", page) EXCEPT !.ok = found ]
       IN  IF ~found
           THEN /\ last' = [ did EXCEPT !.settled = << "rejected" >> ]
                /\ UNCHANGED << entries, doneCallbacks, invalidated >>
           ELSE IF entryInfo /\ entries[page].status = BUILT
           THEN /\ last' = [ did EXCEPT !.settled = << "resolved" >> ]
                /\ UNCHANGED << entries, doneCallbacks, invalidated >>
           ELSE IF entryInfo /\ entries[page].status = BUILDING
           THEN /\ doneCallbacks' =
                      [ doneCallbacks EXCEPT ![page] = Append(@, "pending") ]
                /\ last' = did
                /\ UNCHANGED << entries, invalidated >>
           ELSE /\ entries' = (page :> NewEntry(page)) @@ entries
                /\ doneCallbacks' =
                      [ doneCallbacks EXCEPT ![page] = Append(@, "pending") ]
                /\ last' = did
                /\ UNCHANGED invalidated
    /\ UNCHANGED << lastAccessPages, touchedAPage, ncalls, now, compiling,
                    uncaught >>

\* ensurePage from the answer of resolvePath on: `found` is whether the
\* resolver found the page; if not, the await throws and the call rejects.
EnsurePage(page, found) ==
    /\ uncaught = "none"
    /\ resolving[page] > 0
    /\ resolving' = [ resolving EXCEPT ![page] = @ - 1 ]
    /\ LET entryInfo == page \in DOMAIN entries
           did == [ Quiet("ensurePage", page) EXCEPT !.ok = found ]
       IN  IF ~found
           THEN /\ last' = [ did EXCEPT !.settled = << "rejected" >> ]
                /\ UNCHANGED << entries, doneCallbacks, invalidated >>
           ELSE IF entryInfo /\ entries[page].status = BUILT
           THEN /\ last' = [ did EXCEPT !.settled = << "resolved" >> ]
                /\ UNCHANGED << entries, doneCallbacks, invalidated >>
           ELSE IF entryInfo /\ entries[page].status = BUILDING
           THEN /\ doneCallbacks' =
                      [ doneCallbacks EXCEPT ![page] = Append(@, "pending") ]
                /\ last' = did
                /\ UNCHANGED << entries, invalidated >>
           ELSE /\ entries' = (page :> NewEntry(page)) @@ entries
                /\ doneCallbacks' =
                      [ doneCallbacks EXCEPT ![page] = Append(@, "pending") ]
                /\ invalidated' = TRUE
                /\ last' = [ did EXCEPT !.invalidates = 1 ]
    /\ UNCHANGED << lastAccessPages, touchedAPage, ncalls, now, compiling,
                    uncaught >>

\* ------------------------------------------------- compiler.plugin hooks

\* One compilation.addEntry per caller waiting on the page.
addEntryPerListener(page) == Len(doneCallbacks[page])

\* addEntry(compilation, context, name, entry): the number of
\* compilation.addEntry calls it makes for the page.
addEntry(page) == 1

\* A 'make' that also stamps the entries it marks BUILDING.
MakeStampsEntries ==
    /\ uncaught = "none"
    /\ ~compiling
    /\ entries' = [ p \in DOMAIN entries |->
                        [ lastActiveTime |-> now ]
                            @@ [ entries[p] EXCEPT !.status = BUILDING ] ]
    /\ compiling' = TRUE
    /\ invalidated' = FALSE
    /\ last' = [ Quiet("make", << >>) EXCEPT
                    !.added = [ p \in DOMAIN entries |-> addEntry(p) ] ]
    /\ UNCHANGED << lastAccessPages, doneCallbacks, touchedAPage, resolving,
                    ncalls, now, uncaught >>

\* compiler.plugin('make'): every entry of the registry becomes BUILDING and
\* is added to the compilation.
Make ==
    /\ uncaught = "none"
    /\ ~compiling
    /\ entries' = [ p \in DOMAIN entries |->
                        [ entries[p] EXCEPT !.status = BUILDING ] ]
    /\ compiling' = TRUE
    /\ invalidated' = FALSE
    /\ last' = [ Quiet("make", << >>) EXCEPT
                    !.added = [ p \in DOMAIN entries |-> addEntry(p) ] ]
    /\ UNCHANGED << lastAccessPages, doneCallbacks, touchedAPage, resolving,
                    ncalls, now, uncaught >>

\* The entries that are BUILDING: those the 'done' hook does not skip.
Finished == { p \in DOMAIN entries : entries[p].status = BUILDING }

\* Promise.all(allEntries).catch(done): an addEntry failed, done(err) ends
\* the compilation and the 'done' hook does not run for it.  The entries
\* of a compilation are BUILDING until its end.
MakeFailed ==
    /\ uncaught = "none"
    /\ compiling
    /\ Finished # {}
    /\ compiling' = FALSE
    /\ last' = [ Quiet("makeFailed", << >>) EXCEPT !.ok = FALSE ]
    /\ UNCHANGED << entries, lastAccessPages, doneCallbacks, touchedAPage,
                    resolving, ncalls, now, invalidated, uncaught >>

\* doneCallbacks.emit(page): every listener of the page is called, without
\* an argument.
emit(listeners) ==
    [ i \in DOMAIN listeners |-> processCallback(listeners[i], FALSE) ]

\* The promises an emit on these listeners settles, with their outcomes.
Settled(listeners) ==
    SelectSeq(emit(SelectSeq(listeners, LAMBDA l : l = "pending")),
              LAMBDA l : TRUE)

\* The 'done' hook emitting before it tests the status.
EmittedWhateverStatus == DOMAIN entries

\* The pages the 'done' hook emits on.
Emitted == Finished

RECURSIVE SettledOn(_)
\* The promises settled by the emits on a set of pages.
SettledOn(ps) ==
    IF ps = {} THEN << >>
    ELSE LET p == CHOOSE q \in ps : TRUE
         IN  Settled(doneCallbacks[p]) \o SettledOn(ps \ {p})

\* compiler.plugin('done'): stats is not looked at; hasErrors is whether the
\* pass it reports had compilation errors.
Done(hasErrors) ==
    /\ uncaught = "none"
    /\ compiling
    /\ entries' = [ p \in DOMAIN entries |->
                        IF p \in Finished
                        THEN [ lastActiveTime |-> now ]
                                 @@ [ entries[p] EXCEPT !.status = BUILT ]
                        ELSE entries[p] ]
    /\ touchedAPage' = (touchedAPage \/ Finished # {})
    /\ doneCallbacks' = [ p \in Pages |->
                              IF p \in Emitted
                              THEN emit(doneCallbacks[p])
                              ELSE doneCallbacks[p] ]
    /\ compiling' = FALSE
    /\ last' = [ Quiet("done", << >>) EXCEPT
                    !.ok = ~hasErrors,
                    !.emitted = Emitted,
                    !.settled = SettledOn(Emitted) ]
    /\ UNCHANGED << lastAccessPages, resolving, ncalls, now, invalidated,
                    uncaught >>

\* ---------------------------------------------------------- ping handler

\* The ping handler recording the page as most recent before it looks the
\* entry up.
MessageRecordsFirst(raw) ==
    LET page == normalizePage(raw)
        did == [ Quiet("message", page) EXCEPT !.raw = raw ]
    IN  /\ uncaught = "none"
        /\ IF page \notin DOMAIN entries
           THEN /\ lastAccessPages' =
                      << page >> \o SubSeq(lastAccessPages, 1,
                                           Len(lastAccessPages) - 1)
                /\ last' = [ did EXCEPT !.sent = << [ invalid |-> TRUE ] >> ]
                /\ UNCHANGED << entries, doneCallbacks, touchedAPage, resolving,
                                ncalls, now, compiling, invalidated, uncaught >>
           ELSE IF entries[page].status # BUILT
           THEN /\ last' = did
                /\ UNCHANGED << entries, lastAccessPages, doneCallbacks,
                                touchedAPage, resolving, ncalls, now, compiling,
                                invalidated, uncaught >>
           ELSE /\ lastAccessPages' =
                      << page >> \o SubSeq(lastAccessPages, 1,
                                           Len(lastAccessPages) - 1)
                /\ entries' = [ entries EXCEPT ![page].lastActiveTime = now ]
                /\ last' = did
                /\ UNCHANGED << doneCallbacks, touchedAPage, resolving, ncalls,
                                now, compiling, invalidated, uncaught >>

\* The ping handler putting the page in front of lastAccessPages without
\* the pop() before it.
MessageKeepsHistory(raw) ==
    LET page == normalizePage(raw)
        did == [ Quiet("message", page) EXCEPT !.raw = raw ]
    IN  /\ uncaught = "none"
        /\ IF page \notin DOMAIN entries
           THEN /\ last' = [ did EXCEPT !.sent = << [ invalid |-> TRUE ] >> ]
                /\ UNCHANGED << entries, lastAccessPages, doneCallbacks,
                                touchedAPage, resolving, ncalls, now, compiling,
                                invalidated, uncaught >>
           ELSE IF entries[page].status # BUILT
           THEN /\ last' = did
                /\ UNCHANGED << entries, lastAccessPages, doneCallbacks,
                                touchedAPage, resolving, ncalls, now, compiling,
                                invalidated, uncaught >>
           ELSE /\ lastAccessPages' = << page >> \o lastAccessPages
                /\ entries' = [ entries EXCEPT ![page].lastActiveTime = now ]
                /\ last' = did
                /\ UNCHANGED << doneCallbacks, touchedAPage, resolving, ncalls,
                                now, compiling, invalidated, uncaught >>

\* conn.on('message'): a ping { page: raw }.
Message(raw) ==
    LET page == normalizePage(raw)
        did == [ Quiet("message", page) EXCEPT !.raw = raw ]
    IN  /\ uncaught = "none"
        /\ IF page \notin DOMAIN entries
           THEN /\ last' = [ did EXCEPT !.sent = << [ invalid |-> TRUE ] >> ]
                /\ UNCHANGED << entries, lastAccessPages, doneCallbacks,
                                touchedAPage, resolving, ncalls, now, compiling,
                                invalidated, uncaught >>
           ELSE IF entries[page].status # BUILT
           THEN /\ last' = did
                /\ UNCHANGED << entries, lastAccessPages, doneCallbacks,
                                touchedAPage, resolving, ncalls, now, compiling,
                                invalidated, uncaught >>
           ELSE /\ lastAccessPages' =
                      << page >> \o SubSeq(lastAccessPages, 1,
                                           Len(lastAccessPages) - 1)
                /\ entries' = [ entries EXCEPT ![page].lastActiveTime = now ]
                /\ last' = did
                /\ UNCHANGED << doneCallbacks, touchedAPage, resolving, ncalls,
                                now, compiling, invalidated, uncaught >>

\* The ways a message fails to be a ping: it is not JSON, or it is JSON
\* that carries no page string.
Malformed == { "not JSON", "no page" }

\* conn.on('message') on a message that is not a ping: JSON.parse throws a
\* SyntaxError, or normalizePage calls replace on something that is not a
\* string and throws a TypeError.  The handler catches neither, so the
\* exception leaves it: an uncaught exception ends the process.
MessageThrows(message) ==
    /\ uncaught = "none"
    /\ uncaught' = IF message = "not JSON" THEN "SyntaxError" ELSE "TypeError"
    /\ last' = [ Quiet("messageThrows", << >>) EXCEPT !.ok = FALSE ]
    /\ UNCHANGED << entries, lastAccessPages, doneCallbacks, touchedAPage,
                    resolving, ncalls, now, compiling, invalidated >>

\* ---------------------------------------------------------------- sweep

\* The age test with >= in place of >.
DisposingAtThreshold(page) ==
    /\ entries[page].status = BUILT
    /\ lastAccessPages[1] # page
    /\ "lastActiveTime" \in DOMAIN entries[page]
    /\ now - entries[page].lastActiveTime >= maxInactiveAge

\* The sweep without the test on lastAccessPages[0].
DisposingLastAccessed(page) ==
    /\ entries[page].status = BUILT
    /\ "lastActiveTime" \in DOMAIN entries[page]
    /\ now - entries[page].lastActiveTime > maxInactiveAge

\* The sweep without the test on the status.
DisposingAnyStatus(page) ==
    /\ lastAccessPages[1] # page
    /\ "lastActiveTime" \in DOMAIN entries[page]
    /\ now - entries[page].lastActiveTime > maxInactiveAge

\* The forEach body of disposeInactiveEntries: whether the page is pushed to
\* disposingPages.  A comparison with an undefined lastActiveTime is false.
Disposing(page) ==
    /\ entries[page].status = BUILT
    /\ lastAccessPages[1] # page
    /\ "lastActiveTime" \in DOMAIN entries[page]
    /\ now - entries[page].lastActiveTime > maxInactiveAge

\* The sweep calling invalidate() inside the loop that deletes, once per
\* deleted page.
disposeInvalidatingPerPage ==
    LET disposingPages == { page \in DOMAIN entries : Disposing(page) } IN
    /\ uncaught = "none"
    /\ entries' = [ p \in DOMAIN entries \ disposingPages |-> entries[p] ]
    /\ invalidated' = (invalidated \/ disposingPages # {})
    /\ last' = [ Quiet("sweep", << >>) EXCEPT
                    !.invalidates = Cardinality(disposingPages),
                    !.disposed = disposingPages ]
    /\ UNCHANGED << lastAccessPages, doneCallbacks, touchedAPage, resolving,
                    ncalls, now, compiling, uncaught >>

\* setInterval(function () { disposeInactiveEntries(...) }, 5000)
disposeInactiveEntries ==
    LET disposingPages == { page \in DOMAIN entries : Disposing(page) } IN
    /\ uncaught = "none"
    /\ entries' = [ p \in DOMAIN entries \ disposingPages |-> entries[p] ]
    /\ invalidated' = (invalidated \/ disposingPages # {})
    /\ last' = [ Quiet("sweep", << >>) EXCEPT
                    !.invalidates = IF disposingPages # {} THEN 1 ELSE 0,
                    !.disposed = disposingPages ]
    /\ UNCHANGED << lastAccessPages, doneCallbacks, touchedAPage, resolving,
                    ncalls, now, compiling, uncaught >>

\* ---------------------------------------------------------------- clock

\* Time passes between two handlers: Date.now() moves to a later instant.
Tick(t) ==
    /\ uncaught = "none"
    /\ t > now
    /\ now' = t
    /\ last' = Quiet("tick", << >>)
    /\ UNCHANGED << entries, lastAccessPages, doneCallbacks, touchedAPage,
                    resolving, ncalls, compiling, invalidated, uncaught >>

\* ----------------------------------------------------------------- spec

Next ==
    \/ \E raw \in RawPages : EnsurePageCall(raw)
    \/ \E p \in Pages, found \in BOOLEAN : EnsurePage(p, found)
    \/ Make
    \/ \E hasErrors \in BOOLEAN : Done(hasErrors)
    \/ MakeFailed
    \/ \E raw \in RawPages : Message(raw)
    \/ \E message \in Malformed : MessageThrows(message)
    \/ disposeInactiveEntries
    \/ \E t \in Instants : Tick(t)

Spec == Init /\ [][Next]_vars

\* The handler when nothing fails: the resolver finds every page, every
\* pass ends without an error and every message is a ping.
NextWithoutFailure ==
    \/ \E raw \in RawPages : EnsurePageCall(raw)
    \/ \E p \in Pages : EnsurePage(p, TRUE)
    \/ Make
    \/ Done(FALSE)
    \/ \E raw \in RawPages : Message(raw)
    \/ disposeInactiveEntries
    \/ \E t \in Instants : Tick(t)

\* The resolver answers every call; the build system starts a pass after an
\* invalidation (a pass already running ends first) and ends every pass it
\* starts.
Fairness ==
    /\ \A p \in Pages : WF_vars(EnsurePage(p, TRUE))
    /\ WF_vars(invalidated /\ Make)
    /\ WF_vars(Done(FALSE))

FairSpec == Init /\ [][NextWithoutFailure]_vars /\ Fairness

\* ------------------------------------------------------------- properties

\* A listener of the page goes from pending to the given outcome in the step.
Released(p, outcome) ==
    \E i \in DOMAIN doneCallbacks[p] :
        /\ doneCallbacks[p][i] = "pending"
        /\ doneCallbacks'[p][i] = outcome

\* The age of an entry that has a lastActiveTime.
Age(p) == now - entries[p].lastActiveTime

Stamped(p) == "lastActiveTime" \in DOMAIN entries[p]

\* C1: whenever an ensurePage(p) call is released with success, by an emit of
\* the 'done' hook or at once by ensurePage itself, the registry holds an
\* entry for p and its status is BUILT.
C1_ReleasedOnlyWhenBuilt ==
    [][ \A p \in Pages :
          ( \/ Released(p, "resolved")
            \/ /\ last'.op = "ensurePage"
               /\ last'.page = p
               /\ last'.settled = << "resolved" >> )
          => /\ p \in DOMAIN entries'
             /\ entries'[p].status = BUILT ]_vars

\* The 'done' hook has just released a waiting caller of a page.
C1_Witness ==
    /\ last.op = "done"
    /\ \E p \in last.emitted :
          /\ \E i \in DOMAIN doneCallbacks[p] : doneCallbacks[p][i] = "resolved"
          /\ Len(last.settled) >= 1
          /\ entries[p].status = BUILT

C3_BuiltResolvesAtOnce ==
    [][ ( /\ last'.op = "ensurePage"
          /\ last'.ok
          /\ last'.page \in DOMAIN entries
          /\ entries[last'.page].status = BUILT )
        => /\ last'.settled = << "resolved" >>
           /\ last'.invalidates = 0
           /\ UNCHANGED << entries, doneCallbacks, invalidated,
                           lastAccessPages, compiling >> ]_vars

\* ensurePage has just resolved at once on a BUILT entry while a pass was
\* asked for and a caller of another page was waiting.
C3_Witness ==
    /\ last.op = "ensurePage"
    /\ last.ok
    /\ last.settled = << "resolved" >>
    /\ last.page \in DOMAIN entries
    /\ entries[last.page].status = BUILT
    /\ invalidated
    /\ \E q \in Pages \ { last.page } :
          \E i \in DOMAIN doneCallbacks[q] : doneCallbacks[q][i] = "pending"

\* C4 (as claimed): when a pass fails, every caller waiting on a page of that
\* pass is rejected.
C4_FailureReachesSubscribers ==
    [][ ( /\ compiling
          /\ ~compiling'
          /\ ~last'.ok )
        => \A p \in Finished :
              \A i \in DOMAIN doneCallbacks[p] :
                  doneCallbacks[p][i] = "pending"
                  => doneCallbacks'[p][i] = "rejected" ]_vars

\* The pages of the pass that has just failed.
FailedPassPages ==
    IF last.op = "done" /\ ~last.ok THEN last.emitted
    ELSE IF last.op = "makeFailed" THEN Finished
    ELSE {}

\* C5 (as claimed): an ensurePage(p) that follows a failed pass p was part of
\* invalidates the build system.
C5_RetryAfterFailure ==
    [][ ( /\ last'.op = "ensurePage"
          /\ last'.ok
          /\ last'.page \in FailedPassPages )
        => /\ last'.invalidates >= 1
           /\ invalidated' ]_vars

\* C6: when resolvePath fails the call is rejected and nothing else changes:
\* no entry is created or replaced, no listener added, no invalidation.
C6_ResolverFailureChangesNothing ==
    [][ ( /\ last'.op = "ensurePage"
          /\ ~last'.ok )
        => /\ last'.settled = << "rejected" >>
           /\ last'.invalidates = 0
           /\ UNCHANGED << entries, doneCallbacks, invalidated,
                           lastAccessPages, touchedAPage, compiling >> ]_vars

\* A call for a page without an entry has just been rejected by the resolver.
C6_Witness ==
    /\ last.op = "ensurePage"
    /\ ~last.ok
    /\ last.settled = << "rejected" >>
    /\ last.page \notin DOMAIN entries

\* C7: a sweep keeps, unchanged, every BUILT entry whose lastActiveTime is
\* at most maxInactiveAge before the time of the sweep.
C7_RecentPagesSurviveSweep ==
    [][ last'.op = "sweep"
        => \A p \in DOMAIN entries :
              ( /\ entries[p].status = BUILT
                /\ Stamped(p)
                /\ Age(p) <= maxInactiveAge )
              => /\ p \in DOMAIN entries'
                 /\ entries'[p] = entries[p] ]_vars

\* A sweep has just deleted a page and kept a BUILT page that is not the
\* last accessed one, another page being the last accessed one.
C7_Witness ==
    /\ last.op = "sweep"
    /\ last.invalidates = 1
    /\ lastAccessPages[1] \in DOMAIN entries
    /\ \E p \in DOMAIN entries :
          /\ p # lastAccessPages[1]
          /\ entries[p].status = BUILT
          /\ Age(p) <= maxInactiveAge

\* C8: the page in lastAccessPages[0] is never deleted from the registry.
C8_LastAccessedPageSurvives ==
    [][ \A p \in DOMAIN entries :
            lastAccessPages[1] = p => p \in DOMAIN entries' ]_vars

\* A sweep has just deleted a page and kept the last accessed page although
\* it is older than maxInactiveAge.
C8_Witness ==
    /\ last.op = "sweep"
    /\ last.invalidates = 1
    /\ lastAccessPages[1] \in DOMAIN entries
    /\ entries[lastAccessPages[1]].status = BUILT
    /\ Age(lastAccessPages[1]) > maxInactiveAge

\* C9: a ping for a page without an entry sends exactly one
\* { invalid: true } and changes nothing else.
C9_UnknownPingChangesNothing ==
    [][ ( /\ last'.op = "message"
          /\ last'.page \notin DOMAIN entries )
        => /\ last'.sent = << [ invalid |-> TRUE ] >>
           /\ last'.invalidates = 0
           /\ UNCHANGED << entries, lastAccessPages, doneCallbacks,
                           touchedAPage, resolving, invalidated,
                           compiling >> ]_vars

\* A ping for an evicted page has just been answered, other pages being in
\* the registry.
C9_Witness ==
    /\ last.op = "message"
    /\ last.sent = << [ invalid |-> TRUE ] >>
    /\ last.page \notin DOMAIN entries
    /\ doneCallbacks[last.page] # << >>
    /\ DOMAIN entries # {}

\* C10: an entry leaves the registry only in a sweep, and only if it is
\* BUILT at that moment.
C10_OnlyBuiltEntriesDeleted ==
    [][ \A p \in DOMAIN entries :
            p \notin DOMAIN entries'
            => /\ last'.op = "sweep"
               /\ entries[p].status = BUILT ]_vars

\* A sweep has just run over a BUILDING entry older than maxInactiveAge that
\* is not the last accessed page.
C10_Witness ==
    /\ last.op = "sweep"
    /\ \E p \in DOMAIN entries :
          /\ entries[p].status = BUILDING
          /\ p # lastAccessPages[1]
          /\ Stamped(p)
          /\ Age(p) > maxInactiveAge

\* The pages that have an entry before and after the step.
Kept == DOMAIN entries \cap DOMAIN entries'

\* C11 as stated: the status of an entry only advances ADDED -> BUILDING ->
\* BUILT; while the entry stays in the registry it never goes from BUILT
\* back to BUILDING or ADDED, nor from BUILDING back to ADDED.
C11_StatusOnlyAdvances ==
    [][ \A p \in Kept :
          << entries[p].status, entries'[p].status >> \notin
              { << BUILT, BUILDING >>, << BUILT, ADDED >>,
                << BUILDING, ADDED >> } ]_vars

\* C11, amended: the status of an entry that stays in the registry changes
\* only from ADDED or BUILT to BUILDING, at a 'make', and from BUILDING to
\* BUILT, at a 'done'; it never returns to ADDED.
C11_StatusCycle ==
    [][ \A p \in Kept :
          entries[p].status # entries'[p].status
          => \/ /\ entries[p].status \in { ADDED, BUILT }
                /\ entries'[p].status = BUILDING
                /\ last'.op = "make"
             \/ /\ entries[p].status = BUILDING
                /\ entries'[p].status = BUILT
                /\ last'.op = "done" ]_vars

\* A 'make' has just put an entry that had been BUILT back to BUILDING.
C11_Witness ==
    /\ last.op = "make"
    /\ \E p \in DOMAIN entries :
          /\ entries[p].status = BUILDING
          /\ Stamped(p)

\* C12: an ensurePage(p) that finds no entry for p, whether p was never
\* requested or was built and evicted before, puts a fresh entry in the
\* registry (ADDED, no lastActiveTime), invalidates once and leaves its
\* caller pending; an entry becomes BUILDING only at a 'make' and BUILT only
\* at a 'done' that found it BUILDING, and a pending caller of p is released
\* only by such a 'done', whatever the earlier cycles of p left behind.
C12_ReAddedLikeFirstBuild ==
    [][ \A p \in Pages :
          /\ ( /\ last'.op = "ensurePage"
               /\ last'.page = p
               /\ last'.ok
               /\ p \notin DOMAIN entries )
             => /\ p \in DOMAIN entries'
                /\ entries'[p].status = ADDED
                /\ "lastActiveTime" \notin DOMAIN entries'[p]
                /\ last'.invalidates = 1
                /\ invalidated'
                /\ last'.settled = << >>
                /\ doneCallbacks'[p] = Append(doneCallbacks[p], "pending")
          /\ ( /\ p \in DOMAIN entries'
               /\ entries'[p].status = BUILDING
               /\ ~(p \in DOMAIN entries /\ entries[p].status = BUILDING) )
             => /\ last'.op = "make"
                /\ p \in DOMAIN entries
          /\ ( \/ \E outcome \in { "resolved", "rejected" } :
                    Released(p, outcome)
               \/ /\ p \in DOMAIN entries'
                  /\ entries'[p].status = BUILT
                  /\ ~(p \in DOMAIN entries /\ entries[p].status = BUILT) )
             => /\ last'.op = "done"
                /\ p \in DOMAIN entries
                /\ entries[p].status = BUILDING
                /\ entries'[p].status = BUILT
                /\ entries'[p].lastActiveTime = now ]_vars

\* ensurePage has just added again a page that was built, released its
\* caller and was evicted: the earlier listener is still there, resolved,
\* and the new caller waits on a fresh entry.
C12_Witness ==
    /\ last.op = "ensurePage"
    /\ last.invalidates = 1
    /\ last.page \in DOMAIN entries
    /\ entries[last.page].status = ADDED
    /\ doneCallbacks[last.page] = << "resolved", "pending" >>

\* C13: a message that is not a well-formed ping fails alone: the handler
\* leaves the registry and lastAccessPages as they are and lets no exception
\* out, so that the connection and the process go on and later pings are
\* handled.
C13_MalformedPingFailsAlone ==
    [][ last'.op = "messageThrows"
        => /\ UNCHANGED << entries, lastAccessPages >>
           /\ uncaught' = "none" ]_vars

\* Page identifiers to normalize: those handed to the handler, the same
\* with index or /index after them, and what normalizePage makes of these.
Identifiers ==
    LET given == RawPages
                   \cup { raw \o << "index" >> : raw \in RawPages }
                   \cup { raw \o << "/", "index" >> : raw \in RawPages }
    IN  given \cup { normalizePage(id) : id \in given }

\* C14: normalizePage is idempotent and maps an identifier ending in /index
\* to the same key as the identifier ending in / ; every key of the registry
\* is a normalized identifier, so the registry never holds one entry for the
\* /index form and another for the / form, and a ping given in either form
\* acts on the entry under the normalized key.
C14_OneKeyForBothForms ==
    /\ \A id \in Identifiers :
          normalizePage(normalizePage(id)) = normalizePage(id)
    /\ \A id \in Identifiers :
          (Len(id) >= 1 /\ id[Len(id)] = "/")
          => /\ normalizePage(id \o << "index" >>) = id
             /\ normalizePage(id) = id
    /\ \A page \in DOMAIN entries : normalizePage(page) = page
    /\ last.op \in { "ensurePageCall", "message" }
       => last.page = normalizePage(last.raw)
    /\ ( /\ last.op = "message"
         /\ normalizePage(last.raw) \in DOMAIN entries
         /\ entries[normalizePage(last.raw)].status = BUILT )
       => /\ lastAccessPages[1] = normalizePage(last.raw)
          /\ entries[normalizePage(last.raw)].lastActiveTime = now

\* A ping for /index has just refreshed the entry kept under / .
C14_Witness ==
    /\ last.op = "message"
    /\ last.raw = << "/", "index" >>
    /\ DOMAIN entries = { << "/" >> }
    /\ entries[<< "/" >>].status = BUILT
    /\ entries[<< "/" >>].lastActiveTime = now
    /\ now > 0
    /\ lastAccessPages = << << "/" >> >>

\* The step changes the lastActiveTime of an entry that had one.
Restamped(p) ==
    /\ p \in Kept
    /\ Stamped(p)
    /\ \/ "lastActiveTime" \notin DOMAIN entries'[p]
       \/ entries'[p].lastActiveTime # entries[p].lastActiveTime

\* C15 as stated: once an entry has been BUILT, its lastActiveTime changes
\* only when a ping for its page is handled.
C15_OnlyPingsRestamp ==
    [][ \A p \in Pages :
          Restamped(p) => (last'.op = "message" /\ last'.page = p) ]_vars

\* C15, amended: once an entry has been BUILT, its lastActiveTime changes
\* only when a ping for its page is handled or when a 'done' finds it
\* BUILDING again and marks it BUILT; both set it to the current time.
\* Pass starts, ensurePage calls and sweeps leave it unchanged.
C15_PingsAndCompletionsRestamp ==
    [][ \A p \in Pages :
          Restamped(p)
          => /\ \/ last'.op = "message" /\ last'.page = p
                \/ /\ last'.op = "done"
                   /\ p \in last'.emitted
                   /\ entries[p].status = BUILDING
             /\ entries'[p].status = BUILT
             /\ "lastActiveTime" \in DOMAIN entries'[p]
             /\ entries'[p].lastActiveTime = now ]_vars

\* A 'done' has just stamped, at a later time, an entry whose callers an
\* earlier 'done' had all released.
C15_Witness ==
    /\ last.op = "done"
    /\ last.settled = << >>
    /\ now > 0
    /\ \E p \in last.emitted :
          /\ doneCallbacks[p] # << >>
          /\ entries[p].status = BUILT
          /\ entries[p].lastActiveTime = now

\* The step is ensurePage, past the resolver, finding an entry of the page
\* with the given status.
EnsurePageFinds(p, status) ==
    /\ last'.op = "ensurePage"
    /\ last'.page = p
    /\ last'.ok
    /\ p \in DOMAIN entries
    /\ entries[p].status = status

\* What ensurePage does on a BUILDING entry: it registers the caller's
\* listener and leaves the caller pending, the registry as it is, and the
\* build system alone.
SubscribesOnly(p) ==
    /\ doneCallbacks' = [ doneCallbacks EXCEPT ![p] = Append(@, "pending") ]
    /\ last'.settled = << >>
    /\ entries' = entries
    /\ last'.invalidates = 0
    /\ invalidated' = invalidated

\* C16 as stated: ensurePage(p) on an ADDED entry does what it does on a
\* BUILDING one, with the same effect on the registry and on the build
\* system.
C16_AddedHandledAsBuilding ==
    [][ \A p \in Pages :
          /\ EnsurePageFinds(p, BUILDING) => SubscribesOnly(p)
          /\ EnsurePageFinds(p, ADDED) => SubscribesOnly(p) ]_vars

\* C16, amended: on a BUILDING entry ensurePage(p) only subscribes the
\* caller; on an ADDED entry it subscribes the caller and leaves it pending
\* as well, but it also writes the entry again, as a fresh ADDED entry, and
\* invalidates the build system once more.
C16_AddedIsAddedAgain ==
    [][ \A p \in Pages :
          /\ EnsurePageFinds(p, BUILDING) => SubscribesOnly(p)
          /\ EnsurePageFinds(p, ADDED)
             => /\ doneCallbacks' =
                      [ doneCallbacks EXCEPT ![p] = Append(@, "pending") ]
                /\ last'.settled = << >>
                /\ DOMAIN entries' = DOMAIN entries
                /\ entries'[p] = NewEntry(p)
                /\ \A q \in DOMAIN entries \ {p} : entries'[q] = entries[q]
                /\ last'.invalidates = 1
                /\ invalidated' ]_vars

\* ensurePage has just found its page ADDED by an earlier call that still
\* waits, and has invalidated again.
C16_Witness ==
    /\ last.op = "ensurePage"
    /\ last.invalidates = 1
    /\ last.page \in DOMAIN entries
    /\ entries[last.page].status = ADDED
    /\ Len(doneCallbacks[last.page]) >= 2
    /\ \A i \in DOMAIN doneCallbacks[last.page] :
          doneCallbacks[last.page][i] = "pending"

\* C17: a sweep deletes, in its one step, every entry that is BUILT, is not
\* the last accessed page and is older than maxInactiveAge, and nothing
\* else; it calls invalidate() once if it deleted at least one entry,
\* however many, and not at all if it deleted none.
C17_SweepInvalidatesOnce ==
    [][ last'.op = "sweep"
        => /\ DOMAIN entries' \subseteq DOMAIN entries
           /\ \A p \in DOMAIN entries' : entries'[p] = entries[p]
           /\ last'.disposed = DOMAIN entries \ DOMAIN entries'
           /\ \A p \in DOMAIN entries :
                 p \notin DOMAIN entries'
                 <=> /\ entries[p].status = BUILT
                     /\ lastAccessPages[1] # p
                     /\ Age(p) > maxInactiveAge
           /\ last'.invalidates =
                 IF DOMAIN entries' # DOMAIN entries THEN 1 ELSE 0
           /\ invalidated' = (invalidated \/ last'.invalidates = 1) ]_vars

\* A sweep has just deleted two entries and invalidated once.
C17_Witness ==
    /\ last.op = "sweep"
    /\ Cardinality(last.disposed) >= 2
    /\ last.invalidates = 1
    /\ invalidated

\* C18: a subscription lives for one build cycle: once the completion of a
\* page has released its callers, doneCallbacks holds no listener of theirs.
\* Every listener doneCallbacks holds is that of a caller that still waits,
\* so a later emit calls no listener of a caller released before and the
\* listeners of a page do not pile up from one cycle to the next.
C18_NoListenerOutlivesItsCycle ==
    \A p \in Pages :
        \A i \in DOMAIN doneCallbacks[p] : doneCallbacks[p][i] = "pending"

\* A call for the page awaits the resolver or the completion of the page.
Waiting(p) ==
    \/ resolving[p] > 0
    \/ \E i \in DOMAIN doneCallbacks[p] : doneCallbacks[p][i] = "pending"

\* C19: if the resolver finds every page, every invalidation is followed by
\* a pass and every pass ends without an error, then whenever ensurePage
\* calls for a page wait, a time comes when none of them waits any more
\* and all those that had to wait for the build have resolved, whatever
\* other calls, pings, sweeps and passes come in between.
C19_EveryCallResolves ==
    \A p \in Pages :
        Waiting(p)
        ~> /\ ~Waiting(p)
           /\ \A i \in DOMAIN doneCallbacks[p] :
                 doneCallbacks[p][i] = "resolved"

\* A caller waits on a page that was added while a pass was running, which
\* has another page in it.
C19_Witness ==
    /\ compiling
    /\ \E p \in DOMAIN entries :
          /\ entries[p].status = ADDED
          /\ \E i \in DOMAIN doneCallbacks[p] :
                doneCallbacks[p][i] = "pending"
    /\ \E q \in DOMAIN entries : entries[q].status = BUILDING

\* C20: lastAccessPages always holds exactly one value, which is the empty
\* identifier it starts with or a page that has an entry in the registry;
\* it never names a page that was evicted.
C20_RecencyNamesAnEntry ==
    /\ Len(lastAccessPages) = 1
    /\ \/ lastAccessPages[1] = << >>
       \/ lastAccessPages[1] \in DOMAIN entries

\* A sweep has just evicted pages and kept the last accessed one, which is
\* older than maxInactiveAge itself.
C20_Witness ==
    /\ last.op = "sweep"
    /\ last.disposed # {}
    /\ lastAccessPages[1] \in DOMAIN entries
    /\ lastAccessPages[1] \notin last.disposed
    /\ now - entries[lastAccessPages[1]].lastActiveTime > maxInactiveAge

====
